---- MODULE Spec2Model ----
(***************************************************************************)
(* Model of src/file_handler.py: a single-threaded HTTP server             *)
(* (socketserver.TCPServer + FileUploadHandler) whose only state is the    *)
(* working directory.  One action per request handler (do_OPTIONS,         *)
(* do_POST, do_GET); a handler runs to completion before the next request  *)
(* is accepted.  Tick is the wall clock between requests; within an upload *)
(* the clock advances while the analyzer subprocess runs.                  *)
(*                                                                         *)
(* Representation                                                          *)
(*   - a file name is a sequence of string pieces, <<"a", ".xlsx">> for    *)
(*     "a.xlsx"; concatenation of strings is concatenation of sequences;   *)
(*   - a path is [dir, name] with dir "." (the working directory) or       *)
(*     "history" (the directory ./history); a client filename              *)
(*     "history/x.json" is [dir |-> "history", name |-> <<"x", ".json">>]; *)
(*   - file content is a sequence of byte tokens;                          *)
(*   - the working directory is fs, a function from the paths of the       *)
(*     existing regular files to [content, mtime], and histDir, whether    *)
(*     ./history exists as a directory.                                    *)
(***************************************************************************)
EXTENDS Integers, Sequences, FiniteSets, TLC

VARIABLES fs, histDir, now, req, resp, fx, uploads, nreq

vars == <<fs, histDir, now, req, resp, fx, uploads, nreq>>

---------------------------------------------------------------------------
(* Bounds *)

MaxRequests == 2
MaxHistRequests == 3
MaxTime == 2
TicksPerSecond == 2

---------------------------------------------------------------------------
(* Names, paths and contents *)

Cwd == "."
HistoryDirName == "history"

P(d, n) == [dir |-> d, name |-> n]

ResultPath == P(Cwd, <<"analysis_results", ".json">>)
HistoryAsFile == P(Cwd, <<HistoryDirName>>)
DefaultFilename == P(Cwd, <<"uploaded_file", ".xlsx">>)
EmptyFilename == P(Cwd, <<>>)

ExtPieces == {".xlsx", ".csv", ".json"}

\* Path(filename).stem: the final component without its last suffix
Stem(name) ==
  IF Len(name) > 1 /\ name[Len(name)] \in ExtPieces
  THEN SubSeq(name, 1, Len(name) - 1)
  ELSE name

\* datetime.now().strftime('%Y%m%d-%H%M%S'): second resolution
Strftime(t) == ToString(t \div TicksPerSecond)

\* f"{base_name}_{timestamp}.json"
HistoryFilename(base, ts) == base \o <<"_", ts, ".json">>

\* f'/history/{name}'
HistoryUrl(name) == <<"/history/">> \o name

StartsWith(s, prefix) ==
  /\ Len(s) >= Len(prefix)
  /\ SubSeq(s, 1, Len(prefix)) = prefix

EndsWith(s, piece) == Len(s) >= 1 /\ s[Len(s)] = piece

\* contents
Xlsx1 == <<"PK", "sheet1">>
Xlsx2 == <<"PK", "sheet2", "sheet3">>
SummaryRows5 == "{\"rows\": 5}"
DocRows5 == <<"{", "data_summary", ":", SummaryRows5, "}">>
DocNoSummary == <<"{", "status", ":", "\"ok\"", "}">>
DocInvalid == <<"{", "data_summary", ":">>
EmptyObject == "{}"

JsonKeys == {"data_summary", "status"}
JsonValues == {SummaryRows5, "\"ok\"", "null"}

\* json.load on a text: ok = FALSE when json.load raises; otherwise the
\* top-level object as a set of <<key, value>> pairs
JsonLoad(c) ==
  IF c = <<"{", "}">>
  THEN [ok |-> TRUE, fields |-> {}]
  ELSE IF /\ Len(c) = 5
          /\ c[1] = "{" /\ c[3] = ":" /\ c[5] = "}"
          /\ c[2] \in JsonKeys /\ c[4] \in JsonValues
       THEN [ok |-> TRUE, fields |-> {<<c[2], c[4]>>}]
       ELSE [ok |-> FALSE, fields |-> {}]

\* variant: the field is never found
JsonGet_default(obj, key, default) == default

\* data_json.get('data_summary', {})
JsonGet(obj, key, default) ==
  IF \E kv \in obj.fields : kv[1] = key
  THEN (CHOOSE kv \in obj.fields : kv[1] = key)[2]
  ELSE default

---------------------------------------------------------------------------
(* The file system *)

Exists(f, p) == p \in DOMAIN f

\* open(p, 'wb') succeeds: the parent directory exists and p is not a directory
CanOpenW(f, hd, p) ==
  IF p.dir = HistoryDirName
  THEN hd
  ELSE ~(p = HistoryAsFile /\ hd)

\* with open(p, 'wb') as f: f.write(c)   (create or truncate)
WriteFile(f, p, c, t) ==
  [q \in (DOMAIN f) \cup {p} |->
     IF q = p THEN [content |-> c, mtime |-> t] ELSE f[q]]

---------------------------------------------------------------------------
(* Responses: BaseHTTPRequestHandler buffers the headers; the handler's   *)
(* end_headers override appends the CORS origin header and flushes.       *)

NoBody ==
  [fmt |-> "none", keys |-> {}, success |-> "absent", message |-> "",
   error |-> "", stderr |-> "", stdout |-> "", filename |-> EmptyFilename,
   size |-> 0, summary |-> "", history_file |-> <<>>,
   history_timestamp |-> "", items |-> <<>>, bytes |-> <<>>]

send_response(code) ==
  [status |-> code,
   headers |-> << <<"Server", "SimpleHTTP">>, <<"Date", "now">> >>,
   body |-> NoBody]

send_header(r, k, v) == [r EXCEPT !.headers = Append(@, <<k, v>>)]

\* variant: the override forgets the CORS origin header
end_headers_noorigin(r) == r

end_headers(r) == send_header(r, "Access-Control-Allow-Origin", "*")

wfile_write(r, b) == [r EXCEPT !.body = b]

\* BaseHTTPRequestHandler.send_error: an HTML error page
send_error(code, message) ==
  wfile_write(
    end_headers(
      send_header(
        send_header(
          send_header(send_response(code), "Connection", "close"),
          "Content-Type", "text/html;charset=utf-8"),
        "Content-Length", "len(body)")),
    [NoBody EXCEPT !.fmt = "html", !.message = message])

JsonResponse(code, body) ==
  wfile_write(
    end_headers(
      send_header(send_response(code), "Content-Type", "application/json")),
    body)

\* variant: the two captured streams are exchanged
AnalysisFailedResponse_swapped(proc) ==
  JsonResponse(500,
    [NoBody EXCEPT !.fmt = "json",
                   !.keys = {"success", "message", "stderr", "stdout"},
                   !.success = "false",
                   !.message = "analysis failed",
                   !.stderr = proc.stdout,
                   !.stdout = proc.stderr])

\* lines 100-109
AnalysisFailedResponse(proc) ==
  JsonResponse(500,
    [NoBody EXCEPT !.fmt = "json",
                   !.keys = {"success", "message", "stderr", "stdout"},
                   !.success = "false",
                   !.message = "analysis failed",
                   !.stderr = proc.stderr,
                   !.stdout = proc.stdout])

\* lines 151-159
ExceptionResponse(e) ==
  JsonResponse(500,
    [NoBody EXCEPT !.fmt = "json",
                   !.keys = {"success", "message"},
                   !.success = "false",
                   !.message = e])

\* lines 137-150
SuccessResponse(filename, data, summary, history_filename, timestamp) ==
  JsonResponse(200,
    [NoBody EXCEPT !.fmt = "json",
                   !.keys = {"success", "message", "filename", "size",
                             "summary", "history_file", "history_timestamp"},
                   !.success = "true",
                   !.message = "upload and analysis complete",
                   !.filename = filename,
                   !.size = Len(data),
                   !.summary = summary,
                   !.history_file = HistoryUrl(history_filename),
                   !.history_timestamp = timestamp])

---------------------------------------------------------------------------
(* The external analyzer, invoked as a blocking subprocess.  Its outcome   *)
(* is an input: exit code, captured output, and the document it leaves    *)
(* at ./analysis_results.json, if any.  subprocess.run blocks the handler  *)
(* for az.elapsed ticks of the clock; the document is written              *)
(* az.writeAfter ticks into the run.                                       *)

RunAnalyzer(f, az, t) ==
  IF az.writes THEN WriteFile(f, ResultPath, az.doc, t + az.writeAfter) ELSE f

---------------------------------------------------------------------------
(* POST /upload *)

MultipartPrefix == <<"multipart/form-data">>

\* cgi.FieldStorage raises ValueError when the boundary parameter is absent
HasBoundary(ct) == \E i \in 1..Len(ct) : ct[i] = "; boundary=X"

NoEntry == [ok |-> FALSE, base |-> <<>>, name |-> <<>>, copied |-> FALSE]

\* what a handler did besides answering: ran the analyzer, opened
\* analysis_results.json for reading
FxNone == [ran |-> FALSE, read |-> FALSE]
FxRan == [ran |-> TRUE, read |-> FALSE]
FxRead(f) == [ran |-> TRUE, read |-> Exists(f, ResultPath)]

\* t is the clock when the handler returns
Out(f, hd, r, effects, entry, t) ==
  [fs |-> f, histDir |-> hd, resp |-> r, fx |-> effects, entry |-> entry,
   now |-> t]

\* lines 112-121
ReadSummary(f) ==
  IF Exists(f, ResultPath)
  THEN LET data_json == JsonLoad(f[ResultPath].content)
       IN IF data_json.ok
          THEN JsonGet(data_json, "data_summary", EmptyObject)
          ELSE EmptyObject
  ELSE EmptyObject

\* the I/O error, if any, met by the archive copy: "open" when
\* open(history_path, 'wb') raises, "write" when hf.write raises after the
\* file was created and `written` bytes reached it
NoFault == [kind |-> "none", written |-> 0]
OpenFault == [kind |-> "open", written |-> 0]
WriteFault(n) == [kind |-> "write", written |-> n]

Prefix(c, n) == SubSeq(c, 1, IF n < Len(c) THEN n ELSE Len(c))

\* variant: the archive step is skipped
CopyToHistory_nocopy(f, history_path, copyFault, t) == f

\* lines 130-135
CopyToHistory(f, history_path, copyFault, t) ==
  IF Exists(f, ResultPath)
  THEN CASE copyFault.kind = "none" ->
              WriteFile(f, history_path, f[ResultPath].content, t)
         [] copyFault.kind = "open" -> f
         [] copyFault.kind = "write" ->
              WriteFile(f, history_path,
                        Prefix(f[ResultPath].content, copyFault.written), t)
  ELSE f

\* lines 85-150, after the request was parsed
\* The handler reads the clock several times: t at the save, t2 when the
\* analyzer has returned and datetime.now() (line 127) names the entry, t3
\* when the copy (lines 132-133) is written and the handler answers,
\* r.copyDelay ticks later.
\* A part `file` without a filename parameter is kept by cgi.FieldStorage
\* as text: file_item.filename is None and file_item.file.read() a str, so
\* f.write(data) raises TypeError after open(save_path, 'wb') truncated the
\* file.
SaveAnalyzeArchive(f0, hd0, t, r) ==
  LET filename == IF ~r.hasFilename \/ r.filename.name = <<>>
                  THEN DefaultFilename ELSE r.filename
      data == r.data
      save_path == filename
  IN IF ~CanOpenW(f0, hd0, save_path)
     THEN Out(f0, hd0, ExceptionResponse("open(save_path) failed"), FxNone,
              NoEntry, t)
     ELSE IF ~r.hasFilename
     THEN Out(WriteFile(f0, save_path, <<>>, t), hd0,
              ExceptionResponse("a bytes-like object is required, not 'str'"),
              FxNone, NoEntry, t)
     ELSE
       LET f1 == WriteFile(f0, save_path, data, t)
           f2 == RunAnalyzer(f1, r.az, t)
           t2 == t + r.az.elapsed
           t3 == t2 + r.copyDelay
       IN IF r.az.returncode # 0
          THEN Out(f2, hd0, AnalysisFailedResponse(r.az), FxRan, NoEntry, t2)
          ELSE
            LET summary == ReadSummary(f2)
            IN IF Exists(f2, HistoryAsFile)
               THEN \* history_dir.mkdir(exist_ok=True) raises FileExistsError
                    Out(f2, hd0, ExceptionResponse("File exists: history"),
                        FxRead(f2), NoEntry, t2)
               ELSE
                 LET base_name == Stem(filename.name)
                     timestamp == Strftime(t2)
                     history_filename == HistoryFilename(base_name, timestamp)
                     history_path == P(HistoryDirName, history_filename)
                     f3 == CopyToHistory(f2, history_path, r.copyFault, t3)
                 IN Out(f3, TRUE,
                        SuccessResponse(filename, data, summary,
                                        history_filename, timestamp),
                        FxRead(f2),
                        [ok |-> TRUE, base |-> base_name,
                         name |-> history_filename,
                         copied |-> Exists(f2, ResultPath)
                                      /\ r.copyFault.kind = "none"],
                        t3)

\* variant: the presence of the field `file` is not checked
handle_file_upload_nofilecheck(f0, hd0, t, r) ==
  IF ~r.ctype.present \/ r.ctype.value = <<>>
       \/ ~StartsWith(r.ctype.value, MultipartPrefix)
  THEN Out(f0, hd0, send_error(400, "Invalid content type"), FxNone, NoEntry, t)
  ELSE IF ~HasBoundary(r.ctype.value)
  THEN Out(f0, hd0, ExceptionResponse("Invalid boundary in multipart form"),
           FxNone, NoEntry, t)
  ELSE SaveAnalyzeArchive(f0, hd0, t, r)

\* lines 66-159
handle_file_upload(f0, hd0, t, r) ==
  IF ~r.ctype.present \/ r.ctype.value = <<>>
       \/ ~StartsWith(r.ctype.value, MultipartPrefix)
  THEN Out(f0, hd0, send_error(400, "Invalid content type"), FxNone, NoEntry, t)
  ELSE IF ~HasBoundary(r.ctype.value)
  THEN Out(f0, hd0, ExceptionResponse("Invalid boundary in multipart form"),
           FxNone, NoEntry, t)
  ELSE IF "file" \notin r.fields
  THEN Out(f0, hd0, send_error(400, "Missing file field"), FxNone, NoEntry, t)
  ELSE SaveAnalyzeArchive(f0, hd0, t, r)

---------------------------------------------------------------------------
(* GET /history and static GET *)

JsonFiles(f) ==
  {p \in DOMAIN f : p.dir = HistoryDirName /\ EndsWith(p.name, ".json")}

\* the orders in which history_dir.glob('*.json') may yield the files
GlobOrders(f) ==
  LET S == JsonFiles(f)
      n == Cardinality(S)
  IN {g \in [1..n -> S] : \A i, j \in 1..n : i # j => g[i] # g[j]}

\* variant: ascending order (reverse=True forgotten)
InsertDesc_asc(f, s, x) ==
  LET k == Cardinality({i \in 1..Len(s) : f[s[i]].mtime <= f[x].mtime})
  IN SubSeq(s, 1, k) \o <<x>> \o SubSeq(s, k + 1, Len(s))

\* insertion of x behind every element whose mtime is not older
InsertDesc(f, s, x) ==
  LET k == Cardinality({i \in 1..Len(s) : f[s[i]].mtime >= f[x].mtime})
  IN SubSeq(s, 1, k) \o <<x>> \o SubSeq(s, k + 1, Len(s))

RECURSIVE SortedByMtimeDesc(_, _)
\* sorted(g, key=lambda p: p.stat().st_mtime, reverse=True): stable
SortedByMtimeDesc(f, g) ==
  IF Len(g) = 0
  THEN <<>>
  ELSE InsertDesc(f, SortedByMtimeDesc(f, SubSeq(g, 1, Len(g) - 1)), g[Len(g)])

\* lines 47-53
HistoryItems(f, files) ==
  [i \in 1..Len(files) |->
     [name |-> files[i].name,
      url |-> HistoryUrl(files[i].name),
      timestamp |-> Strftime(f[files[i]].mtime)]]

\* lines 41-62: g is the glob order, statFault whether p.stat() raises
history_listing(f, hd, g, statFault) ==
  IF (hd \/ Exists(f, HistoryAsFile)) /\ statFault /\ Len(g) > 0
  THEN JsonResponse(500,
         [NoBody EXCEPT !.fmt = "json", !.keys = {"error"},
                        !.error = "stat failed"])
  ELSE JsonResponse(200,
         [NoBody EXCEPT !.fmt = "json",
                        !.items = HistoryItems(f, SortedByMtimeDesc(f, g))])

\* line 64: SimpleHTTPRequestHandler.do_GET for a regular file
static_get(f, p) ==
  IF Exists(f, p)
  THEN wfile_write(
         end_headers(
           send_header(
             send_header(
               send_header(send_response(200), "Content-type", "guess_type(path)"),
               "Content-Length", "st_size"),
             "Last-Modified", Strftime(f[p].mtime))),
         [NoBody EXCEPT !.fmt = "bytes", !.bytes = f[p].content])
  ELSE send_error(404, "File not found")

---------------------------------------------------------------------------
(* Requests *)

NoAz == [returncode |-> 0, stdout |-> "", stderr |-> "", writes |-> FALSE,
         doc |-> <<>>, elapsed |-> 0, writeAfter |-> 0]

NoCType == [present |-> FALSE, value |-> <<>>]

NoReq ==
  [method |-> "NONE", path |-> "", ctype |-> NoCType, fields |-> {},
   hasFilename |-> FALSE, filename |-> EmptyFilename, data |-> <<>>,
   az |-> NoAz, copyDelay |-> 0, copyFault |-> NoFault, statFault |-> FALSE]

Multipart == [present |-> TRUE,
              value |-> <<"multipart/form-data", "; boundary=X">>]
MultipartNoBoundary == [present |-> TRUE, value |-> <<"multipart/form-data">>]
TextPlain == [present |-> TRUE, value |-> <<"text/plain">>]

\* analyzer outcomes, after the collaborator contract: a successful run
\* leaves a document (the server also tolerates none); a failing run exits
\* non-zero and writes diagnostics to stdout/stderr only
AzOk(d) == [NoAz EXCEPT !.stdout = "done", !.writes = TRUE, !.doc = d]
AzOkNoWrite == [NoAz EXCEPT !.stdout = "done"]
AzFail == [NoAz EXCEPT !.returncode = 1, !.stdout = "partial output",
                       !.stderr = "Traceback"]

\* a run that takes e ticks and writes its document, if any, after w of them
Timed(az, e, w) == [az EXCEPT !.elapsed = e, !.writeAfter = w]

\* a part `file` with a filename parameter (fn = EmptyFilename: filename="")
Upload(ct, flds, fn, d, az, cf) ==
  [NoReq EXCEPT !.method = "POST", !.path = "/upload", !.ctype = ct,
                !.fields = flds, !.hasFilename = TRUE, !.filename = fn,
                !.data = d, !.az = az, !.copyFault = cf]

\* uploads during which a tick passes between datetime.now() and the copy
Delayed(filenames, payloads, outcomes) ==
  {[Upload(Multipart, {"file"}, fn, d, o[1], o[2]) EXCEPT !.copyDelay = 1] :
     fn \in filenames, d \in payloads, o \in outcomes}

\* a part `file` without filename parameter
NoFilenameParam ==
  {[Upload(Multipart, {"file"}, EmptyFilename, Xlsx1, AzOk(DocRows5), NoFault)
      EXCEPT !.hasFilename = FALSE]}

A_xlsx == P(Cwd, <<"a", ".xlsx">>)
A_csv == P(Cwd, <<"a", ".csv">>)
B_xlsx == P(Cwd, <<"b", ".xlsx">>)
\* "history/a_0.json": the name the first second gives to an entry of base a
IntoHistory == P(HistoryDirName, HistoryFilename(<<"a">>, "0"))

\* analyzer outcome and copy fault of a well-formed upload
Outcomes ==
  ({AzOk(DocRows5), AzOk(DocNoSummary), AzOk(DocInvalid), AzOkNoWrite, AzFail}
     \X {NoFault})
  \cup ({AzOk(DocRows5)} \X {OpenFault, WriteFault(2)})

\* runs during which the clock advances
TimedOutcomes ==
  {Timed(AzOk(DocRows5), 1, 0), Timed(AzOk(DocRows5), 1, 1), Timed(AzFail, 1, 0)}
    \X {NoFault}

WellFormed(filenames, payloads, outcomes) ==
  {Upload(Multipart, {"file"}, fn, d, o[1], o[2]) :
     fn \in filenames, d \in payloads, o \in outcomes}

\* requests that would save a.xlsx and archive a result were they accepted
Malformed ==
  {Upload(ct, flds, A_xlsx, Xlsx2, AzOk(DocRows5), NoFault) :
     ct \in {NoCType, TextPlain}, flds \in {{"file"}}}
  \cup {Upload(ct, {"other"}, A_xlsx, Xlsx2, AzOk(DocRows5), NoFault) :
     ct \in {Multipart}}
  \cup {Upload(ct, {"file"}, A_xlsx, Xlsx2, AzOk(DocRows5), NoFault) :
     ct \in {MultipartNoBoundary}}

PostOther == {[NoReq EXCEPT !.method = "POST", !.path = "/other"]}

PostRequests ==
  WellFormed({A_xlsx, ResultPath, HistoryAsFile, IntoHistory, EmptyFilename},
             {Xlsx1}, Outcomes)
  \cup WellFormed({A_xlsx}, {Xlsx2},
                  {<<AzOk(DocRows5), NoFault>>, <<AzFail, NoFault>>,
                   <<AzOk(DocRows5), WriteFault(0)>>})
  \cup WellFormed({A_xlsx, IntoHistory}, {Xlsx1}, TimedOutcomes)
  \cup Delayed({A_xlsx}, {Xlsx1},
               {<<AzOk(DocRows5), NoFault>>, <<AzOkNoWrite, NoFault>>})
  \cup NoFilenameParam \cup Malformed \cup PostOther

HistPostRequests ==
  WellFormed({A_xlsx, B_xlsx}, {Xlsx1},
             {<<AzOk(DocRows5), NoFault>>, <<AzOkNoWrite, NoFault>>,
              <<AzOk(DocRows5), OpenFault>>})
  \cup WellFormed({A_csv, IntoHistory}, {Xlsx1},
                  {<<AzOk(DocNoSummary), NoFault>>,
                   <<Timed(AzOk(DocNoSummary), 1, 1), NoFault>>})
  \cup WellFormed({B_xlsx}, {Xlsx1}, {<<AzOk(DocRows5), WriteFault(2)>>})
  \cup Delayed({A_xlsx}, {Xlsx1}, {<<AzOk(DocRows5), NoFault>>})

StaticTargets == {ResultPath, A_xlsx}

---------------------------------------------------------------------------
(* Actions *)

Init ==
  /\ fs = <<>>
  /\ histDir = FALSE
  /\ now = 0
  /\ req = NoReq
  /\ resp = send_response(0)
  /\ fx = FxNone
  /\ uploads = <<>>
  /\ nreq = 0

\* lines 27-32
do_OPTIONS(limit) ==
  /\ nreq < limit
  /\ \E path \in {"/upload", "/other"} :
       /\ req' = [NoReq EXCEPT !.method = "OPTIONS", !.path = path]
       /\ resp' = end_headers(
                    send_header(
                      send_header(send_response(204),
                                  "Access-Control-Allow-Methods", "POST, GET, OPTIONS"),
                      "Access-Control-Allow-Headers", "Content-Type"))
  /\ fx' = FxNone
  /\ nreq' = nreq + 1
  /\ UNCHANGED <<fs, histDir, now, uploads>>

\* lines 34-38
do_POST(limit, requests) ==
  /\ nreq < limit
  /\ \E r \in requests :
       /\ req' = r
       /\ IF r.path = "/upload"
          THEN LET o == handle_file_upload(fs, histDir, now, r)
               IN /\ o.now <= MaxTime
                  /\ now' = o.now
                  /\ fs' = o.fs
                  /\ histDir' = o.histDir
                  /\ resp' = o.resp
                  /\ fx' = o.fx
                  /\ uploads' = IF o.entry.ok THEN Append(uploads, o.entry)
                                ELSE uploads
          ELSE /\ resp' = send_error(404, "Unknown POST endpoint")
               /\ fx' = FxNone
               /\ UNCHANGED <<fs, histDir, now, uploads>>
  /\ nreq' = nreq + 1

\* lines 40-64
do_GET(limit) ==
  /\ nreq < limit
  /\ \/ \E statFault \in BOOLEAN, g \in GlobOrders(fs) :
          /\ req' = [NoReq EXCEPT !.method = "GET", !.path = "/history",
                                  !.statFault = statFault]
          /\ resp' = history_listing(fs, histDir, g, statFault)
     \/ \E p \in StaticTargets :
          /\ req' = [NoReq EXCEPT !.method = "GET", !.path = "/static",
                                  !.filename = p]
          /\ resp' = static_get(fs, p)
  /\ fx' = FxNone
  /\ nreq' = nreq + 1
  /\ UNCHANGED <<fs, histDir, now, uploads>>

\* the wall clock
Tick ==
  /\ now < MaxTime
  /\ now' = now + 1
  /\ UNCHANGED <<fs, histDir, req, resp, fx, uploads, nreq>>

Next ==
  \/ do_OPTIONS(MaxRequests)
  \/ do_POST(MaxRequests, PostRequests)
  \/ do_GET(MaxRequests)
  \/ Tick

Spec == Init /\ [][Next]_vars

NextHistory ==
  \/ do_OPTIONS(MaxHistRequests)
  \/ do_POST(MaxHistRequests, HistPostRequests)
  \/ do_GET(MaxHistRequests)
  \/ Tick

SpecHistory == Init /\ [][NextHistory]_vars

TypeOK ==
  /\ histDir \in BOOLEAN
  /\ now \in 0..MaxTime
  /\ ~(histDir /\ Exists(fs, HistoryAsFile))

---------------------------------------------------------------------------
(* Vocabulary of the properties *)

IsUpload(r) == r.method = "POST" /\ r.path = "/upload"

\* the request passes the checks of lines 69 and 81 and parses
Accepted(r) ==
  /\ r.ctype.present
  /\ StartsWith(r.ctype.value, MultipartPrefix)
  /\ HasBoundary(r.ctype.value)
  /\ "file" \in r.fields

\* Content-Type absent or not multipart/form-data, or a multipart body
\* without the field `file`
MalformedUpload(r) ==
  /\ IsUpload(r)
  /\ \/ ~r.ctype.present
     \/ ~StartsWith(r.ctype.value, MultipartPrefix)
     \/ HasBoundary(r.ctype.value) /\ "file" \notin r.fields

SentFilename(r) ==
  IF ~r.hasFilename \/ r.filename.name = <<>>
  THEN DefaultFilename ELSE r.filename

\* the path under history/ that a 200 upload response names as history_file
NamedHistoryPath(rsp) == P(HistoryDirName, Tail(rsp.body.history_file))

\* the response names history/<base>_<timestamp>.json for the upload's base
\* name and the timestamp it reports
NamesOwnEntry(r, rsp) ==
  Tail(rsp.body.history_file)
    = HistoryFilename(Stem(SentFilename(r).name), rsp.body.history_timestamp)

RequestStep == nreq' = nreq + 1

Count(h, k) == Cardinality({i \in 1..Len(h) : h[i][1] = k})

HistoryPaths(f) == {q \in DOMAIN f : q.dir = HistoryDirName}

---------------------------------------------------------------------------
(* C1 *)

\* C1: after a 200 answer to an upload with non-empty filename F and payload
\* B, the file <workingDir>/F exists and its content is exactly B.
C1_SavedFileHasPayload ==
  (IsUpload(req) /\ resp.status = 200
     /\ req.hasFilename /\ req.filename.name # <<>>)
    => /\ Exists(fs, req.filename)
       /\ fs[req.filename].content = req.data

---------------------------------------------------------------------------
(* C2 *)

\* C2: a malformed POST /upload is answered 400 and has no side effect: no
\* file is written, the analyzer is not run, analysis_results.json and the
\* history directory are unchanged, no history entry is created.
C2_MalformedNoSideEffects ==
  [][(RequestStep /\ MalformedUpload(req'))
       => /\ resp'.status = 400
          /\ fs' = fs
          /\ histDir' = histDir
          /\ ~fx'.ran
          /\ uploads' = uploads]_vars

\* a multipart request without `file` refused while an earlier upload's
\* files and history entry are on disk
C2_Witness ==
  /\ MalformedUpload(req)
  /\ req.ctype = Multipart
  /\ resp.status = 400
  /\ histDir
  /\ HistoryPaths(fs) # {}
  /\ ~Exists(fs, A_xlsx)

---------------------------------------------------------------------------
(* C3 *)

\* C3: when the analyzer of an upload exits non-zero the answer is 500 with
\* success:false and the captured stderr and stdout; the uploaded file is on
\* disk with the content sent, analysis_results.json is not read, and no
\* history entry or directory is written.
C3_AnalyzerFailure ==
  [][(/\ RequestStep
      /\ IsUpload(req')
      /\ Accepted(req')
      /\ req'.hasFilename
      /\ CanOpenW(fs, histDir, SentFilename(req'))
      /\ req'.az.returncode # 0)
       => /\ resp'.status = 500
          /\ resp'.body.fmt = "json"
          /\ resp'.body.success = "false"
          /\ resp'.body.stderr = req'.az.stderr
          /\ resp'.body.stdout = req'.az.stdout
          /\ Exists(fs', SentFilename(req'))
          /\ fs'[SentFilename(req')].content = req'.data
          /\ ~fx'.read
          /\ histDir' = histDir
          /\ uploads' = uploads
          /\ \A q \in (HistoryPaths(fs) \cup HistoryPaths(fs')) \ {SentFilename(req')} :
                Exists(fs, q) /\ Exists(fs', q) /\ fs'[q] = fs[q]]_vars

\* a failed analysis after an earlier successful one: a stale result
\* document and a history entry are on disk
C3_Witness ==
  /\ IsUpload(req)
  /\ req.az.returncode # 0
  /\ resp.status = 500
  /\ resp.body.stderr = "Traceback"
  /\ Exists(fs, ResultPath)
  /\ HistoryPaths(fs) # {}
  /\ Exists(fs, SentFilename(req))

---------------------------------------------------------------------------
(* C4 *)

\* C4: when the analyzer exits 0 the upload is answered 200 with
\* success:true whatever fails among reading the result, creating history/
\* and copying into the history file.
C4_SecondaryFailuresSwallowed ==
  (IsUpload(req) /\ fx.ran /\ req.az.returncode = 0)
    => /\ resp.status = 200
       /\ resp.body.success = "true"

---------------------------------------------------------------------------
(* C6 *)

\* C6: every failure response to a POST or to GET /history has a JSON body
\* with a success or error indicator and a message.
C6_FailuresAreJson ==
  (resp.status >= 400 /\ (req.method = "POST" \/ req.path = "/history"))
    => /\ resp.body.fmt = "json"
       /\ {"success", "error"} \cap resp.body.keys # {}
       /\ resp.body.message # "" \/ resp.body.error # ""

---------------------------------------------------------------------------
(* C7 *)

\* C7: the summary of a 200 upload response is the data_summary value of
\* analysis_results.json when that file exists, parses and has the field,
\* and the empty object when it is absent, unparseable or lacks the field.
C7_Summary ==
  (IsUpload(req) /\ resp.status = 200)
    => /\ (Exists(fs, ResultPath) /\ fs[ResultPath].content = DocRows5)
            => resp.body.summary = SummaryRows5
       /\ ~Exists(fs, ResultPath) => resp.body.summary = EmptyObject
       /\ (Exists(fs, ResultPath)
             /\ fs[ResultPath].content \in {DocInvalid, Xlsx1, Xlsx2})
            => resp.body.summary = EmptyObject
       /\ (Exists(fs, ResultPath) /\ fs[ResultPath].content = DocNoSummary)
            => resp.body.summary = EmptyObject
       /\ resp.body.summary \in {SummaryRows5, EmptyObject}

\* the summary is read from a document an earlier run left behind
C7_Witness ==
  /\ IsUpload(req)
  /\ resp.status = 200
  /\ ~req.az.writes
  /\ resp.body.summary = SummaryRows5

---------------------------------------------------------------------------
(* C8 *)

\* C8: every completed response carries Access-Control-Allow-Origin: *
\* exactly once; OPTIONS is answered 204 with Access-Control-Allow-Methods
\* and Access-Control-Allow-Headers exactly once each.
C8_Cors ==
  (req.method # "NONE")
    => /\ Count(resp.headers, "Access-Control-Allow-Origin") = 1
       /\ \E i \in 1..Len(resp.headers) :
            resp.headers[i] = <<"Access-Control-Allow-Origin", "*">>
       /\ (req.method = "OPTIONS")
            => /\ resp.status = 204
               /\ Count(resp.headers, "Access-Control-Allow-Methods") = 1
               /\ Count(resp.headers, "Access-Control-Allow-Headers") = 1

C8_Witness ==
  /\ req.method = "OPTIONS"
  /\ req.path = "/other"
  /\ resp.status = 204
  /\ nreq = 2

---------------------------------------------------------------------------
(* C9 *)

\* C9: once written by an upload, a history entry is never removed or
\* changed by a later request, except by an upload of the same base name
\* in the same second.
C9_HistoryImmutable ==
  [][\A i \in 1..Len(uploads) :
       LET q == P(HistoryDirName, uploads[i].name)
       IN Exists(fs, q)
            => /\ Exists(fs', q)
               /\ \/ fs'[q].content = fs[q].content
                  \/ /\ RequestStep
                     /\ IsUpload(req')
                     /\ resp'.status = 200
                     /\ Stem(SentFilename(req').name) = uploads[i].base
                     /\ NamedHistoryPath(resp') = q]_vars

---------------------------------------------------------------------------
(* C10 *)

\* C10: for every upload answered 200 the history_file of the response
\* exists under history/ and its bytes are the analysis_results.json written
\* by that upload's own analyzer run.
C10_HistoryFileIsOwnResult ==
  [][(RequestStep /\ IsUpload(req') /\ resp'.status = 200)
       => LET hp == NamedHistoryPath(resp')
          IN /\ NamesOwnEntry(req', resp')
             /\ Exists(fs', hp)
             /\ req'.az.writes
             /\ fs'[hp].content = req'.az.doc]_vars

\* C10 (amended): for every upload answered 200, if analysis_results.json
\* exists once the analyzer has run and the copy meets no I/O error, the
\* history_file of the response exists and its bytes equal
\* analysis_results.json as it stands then: the output of this upload's run
\* when that run wrote one.  If the file is absent or the copy cannot open
\* its target, the response names a history_file this upload did not write.
C10_HistoryFileIsCurrentResult ==
  [][(RequestStep /\ IsUpload(req') /\ resp'.status = 200)
       => LET hp == NamedHistoryPath(resp')
          IN /\ NamesOwnEntry(req', resp')
             /\ (Exists(fs', ResultPath) /\ req'.copyFault.kind = "none")
                  => /\ Exists(fs', hp)
                     /\ fs'[hp].content = fs'[ResultPath].content
                     /\ req'.az.writes => fs'[hp].content = req'.az.doc
             /\ (~Exists(fs', ResultPath) \/ req'.copyFault.kind = "open")
                  => /\ Exists(fs', hp) <=> Exists(fs, hp)
                     /\ Exists(fs, hp) => fs'[hp] = fs[hp]]_vars

\* the second upload's entry holds its own result while the first upload's
\* entry holds a different one
C10_Witness ==
  /\ IsUpload(req)
  /\ resp.status = 200
  /\ Len(uploads) = 2
  /\ req.az.writes
  /\ LET hp == P(HistoryDirName, uploads[2].name)
         h1 == P(HistoryDirName, uploads[1].name)
     IN /\ hp # h1
        /\ Exists(fs, hp) /\ Exists(fs, h1)
        /\ fs[hp].content = req.az.doc
        /\ fs[h1].content # req.az.doc

---------------------------------------------------------------------------
(* C5 *)

IsHistoryGet(r) == r.method = "GET" /\ r.path = "/history"

DistinctBases(log) ==
  \A i, j \in 1..Len(log) : i # j => log[i].base # log[j].base

ItemMtime(it) == fs[P(HistoryDirName, it.name)].mtime

\* C5: after N uploads answered 200 with pairwise distinct base names,
\* GET /history returns 200 with exactly N items, one per upload with url
\* /history/<base>_<timestamp>.json, the most recently created first.
C5_HistoryListsEveryUpload ==
  (IsHistoryGet(req) /\ DistinctBases(uploads))
    => /\ resp.status = 200
       /\ Len(resp.body.items) = Len(uploads)
       /\ \A i \in 1..Len(uploads) :
            resp.body.items[Len(uploads) + 1 - i].url = HistoryUrl(uploads[i].name)

\* C5 (amended): after N uploads answered 200 with pairwise distinct base
\* names, GET /history answers 500 only when the enumeration itself fails;
\* otherwise it answers 200 with exactly one item per *.json file present in
\* history/, among them one with url /history/<base>_<timestamp>.json for
\* every upload whose copy was made, in non-increasing order of mtime (an
\* upload archived at a later mtime precedes one archived earlier).  There
\* are N items when every upload's copy was made and history/ holds no other
\* *.json file.
C5_HistoryListsArchivedUploads ==
  (IsHistoryGet(req) /\ DistinctBases(uploads))
    => IF resp.status # 200
       THEN resp.status = 500 /\ req.statFault
       ELSE LET items == resp.body.items
                N == Len(uploads)
                Pos(i) == CHOOSE k \in 1..Len(items) :
                            items[k].url = HistoryUrl(uploads[i].name)
            IN /\ Len(items) = Cardinality(JsonFiles(fs))
               /\ {items[k].name : k \in 1..Len(items)}
                    = {q.name : q \in JsonFiles(fs)}
               /\ \A k \in 1..Len(items) : items[k].url = HistoryUrl(items[k].name)
               /\ \A i \in 1..N :
                    uploads[i].copied
                      => Cardinality({k \in 1..Len(items) :
                                        items[k].url = HistoryUrl(uploads[i].name)}) = 1
               /\ \A k, l \in 1..Len(items) :
                    k < l => ItemMtime(items[k]) >= ItemMtime(items[l])
               /\ \A i, j \in 1..N :
                    (/\ uploads[i].copied /\ uploads[j].copied
                     /\ ItemMtime(items[Pos(i)]) < ItemMtime(items[Pos(j)]))
                      => Pos(j) < Pos(i)
               /\ (/\ \A i \in 1..N : uploads[i].copied
                   /\ {q.name : q \in JsonFiles(fs)}
                        \subseteq {uploads[i].name : i \in 1..N})
                    => Len(items) = N

\* two archived uploads a tick apart, listed newest first
C5_Witness ==
  /\ IsHistoryGet(req)
  /\ resp.status = 200
  /\ Len(uploads) = 2
  /\ uploads[1].copied /\ uploads[2].copied
  /\ uploads[1].base # uploads[2].base
  /\ Len(resp.body.items) = 2
  /\ resp.body.items[1].url = HistoryUrl(uploads[2].name)
  /\ resp.body.items[2].url = HistoryUrl(uploads[1].name)
  /\ ItemMtime(resp.body.items[1]) > ItemMtime(resp.body.items[2])

====
